---- MODULE Spec2Model ----
(***************************************************************************)
(* A model of numba/hsa/compiler.py: the configurable kernel base class    *)
(* (HSAKernelBase), the per-context finalized-program cache                *)
(* (_CachedProgram), the kernel object (HSAKernel) with its argument       *)
(* marshalling, and the auto-specializing wrapper (AutoJitHSAKernel).      *)
(*                                                                         *)
(* Python objects live in a heap, objs: a sequence of records addressed by *)
(* index, so that aliasing and in-place mutation are expressible.  The     *)
(* driver (contexts, programs, kernarg regions, queues) is modelled by the *)
(* calls the code makes to it, which are counted or logged.                *)
(***************************************************************************)
EXTENDS Integers, Sequences, FiniteSets, TLC

VARIABLES
    objs,       \* the heap of HSAKernelBase objects (kernels, wrappers, clones)
    lastCfg,    \* the last configure / __getitem__ call: its inputs and result
    curctx,     \* the active device context, devices.get_context()
    cacheprogs, \* the _CachedProgram objects: binary and per-context _cache
    programs,   \* the driver programs created so far (create_program)
    buffers,    \* the argument buffers allocated so far (kernarg_region.allocate)
    lastCall,   \* the last kernel invocation: its inputs, driver calls, outcome
    outcomes,   \* how each kernel invocation so far ended, in order
    tables,     \* the `definitions` dicts of the AutoJitHSAKernel wrappers
    compiles,   \* the compile_kernel calls made so far, in order
    lastAuto,   \* the last AutoJitHSAKernel.__call__: wrapper, key, kernel
    threads,    \* per calling thread: where it is in bind and its locals
    padcalc,    \* one _calc_padding_for_alignment call: its inputs and result
    packed      \* one _unpack_argument call: its inputs and kernelargs

cfgVars == <<objs, lastCfg>>
drvVars == <<cacheprogs, programs, buffers, lastCall, outcomes>>
autoVars == <<tables, compiles, lastAuto>>
calcVars == <<padcalc, packed>>

vars == <<cfgVars, curctx, drvVars, autoVars, threads, calcVars>>

----------------------------------------------------------------------------
(* Bounds *)

\* the number of objects the heap may hold
MaxObjs == 3

\* the number of kernel invocations in one behaviour
MaxCalls == 3

\* the largest alignment and the largest offset given to
\* _calc_padding_for_alignment on its own
MaxAlign == 8
MaxBase == 16

\* the largest rank of an Array descriptor and of an ndarray given to
\* _unpack_argument on its own
MaxRank == 6

----------------------------------------------------------------------------
(* Values *)

\* Python's None for an optional tuple, and a present tuple
NoneSize == [some |-> FALSE, v |-> <<>>]
SomeSize(s) == [some |-> TRUE, v |-> s]

\* a size argument as the caller passes it: None, a scalar, or a sequence
NoneArg == [tag |-> "none", n |-> 0, s |-> <<>>]
ScalarArg(k) == [tag |-> "scalar", n |-> k, s |-> <<>>]
SeqArg(q) == [tag |-> "seq", n |-> 0, s |-> q]

\* a stored optional tuple passed back as an argument (AutoJitHSAKernel.__call__)
AsArg(opt) == IF opt.some THEN SeqArg(opt.v) ELSE NoneArg

Max(a, b) == IF a >= b THEN a ELSE b

----------------------------------------------------------------------------
(* HSAKernelBase *)

\* HSAKernelBase.__init__: the attributes a fresh object starts with
HSAKernelBase_init(kind, argtypes, ref) ==
    [kind |-> kind,
     global_size |-> <<1>>,
     local_size |-> SomeSize(<<1>>),
     stream |-> "None",
     argument_types |-> argtypes,
     ref |-> ref]

\* _ensure_list: a scalar becomes a one-element list, a sequence a fresh list
_ensure_list(val) == IF val.tag = "seq" THEN val.s ELSE <<val.n>>

\* _ensure_size_or_append: append 1 until the list has `size` elements
_ensure_size_or_append(val, size) ==
    val \o [i \in 1..(size - Len(val)) |-> 1]

\* a copy that gives the clone a cache object (or table) of its own
copy_unshared(heap, self) ==
    [heap |-> Append(heap, [heap[self] EXCEPT !.ref = @ + 1]),
     at |-> Len(heap) + 1]

\* a copy that returns the receiver itself (an aliasing bug)
copy_alias(heap, self) == [heap |-> heap, at |-> self]

\* HSAKernelBase.copy: copy.copy(self), a new object with the same attributes
\* (attribute values, such as the finalized-program cache, are shared)
copy(heap, self) == [heap |-> Append(heap, heap[self]), at |-> Len(heap) + 1]

\* HSAKernelBase.configure: the heap after the call and the object returned
configure(heap, self, global_size, local_size, stream) ==
    LET gl0 == _ensure_list(global_size)
        given == local_size.tag # "none"
        ll0 == IF given THEN _ensure_list(local_size) ELSE <<>>
        size == Max(Len(gl0), Len(ll0))
        gl == IF given THEN _ensure_size_or_append(gl0, size) ELSE gl0
        ll == IF given THEN _ensure_size_or_append(ll0, size) ELSE <<>>
        c == copy(heap, self)
        clone == [c.heap[c.at] EXCEPT
                    !.global_size = gl,
                    \* `tuple(local_size) if local_size else None`: the test is
                    \* truthiness, so None and the empty list both give None
                    !.local_size = IF given /\ ll # <<>> THEN SomeSize(ll)
                                   ELSE NoneSize,
                    !.stream = stream]
    IN  [heap |-> [c.heap EXCEPT ![c.at] = clone], at |-> c.at]

\* the product the square-bracket form should not compute (a sum)
gridsize_sum(griddim, blockdim) ==
    [i \in 1..Len(griddim) |-> griddim[i] + blockdim[i]]

\* HSAKernelBase.__getitem__, `gs = [g * l for g, l in zip(griddim, blockdim)]`
gridsize(griddim, blockdim) ==
    [i \in 1..Len(griddim) |-> griddim[i] * blockdim[i]]

\* HSAKernelBase.__getitem__: args = (griddim, blockdim) + rest, where rest
\* holds the stream when the caller gave one
getitem(heap, self, arg0, arg1, rest) ==
    LET g0 == _ensure_list(arg0)
        b0 == _ensure_list(arg1)
        size == Max(Len(g0), Len(b0))
        griddim == _ensure_size_or_append(g0, size)
        blockdim == _ensure_size_or_append(b0, size)
        gs == gridsize(griddim, blockdim)
    IN  configure(heap, self, SeqArg(gs), SeqArg(blockdim),
                  IF rest = <<>> THEN "None" ELSE rest[1])


----------------------------------------------------------------------------
(* Argument types, values and native cells *)

\* an argument-type descriptor: types.Array of a rank, or a scalar type
ArrayType(r) == [k |-> "Array", ndim |-> r]
ScalarType(name) == [k |-> name, ndim |-> 0]

\* the names of the types.Integer instances
IntegerKinds ==
    {"int8", "int16", "int32", "int64", "uint8", "uint16", "uint32", "uint64"}

\* ctypes.sizeof of the ctypes the marshaller uses (64-bit host)
sizeof(ctype) ==
    CASE ctype \in {"c_void_p", "c_ssize_t", "c_int64", "c_uint64", "c_double"} -> 8
      [] ctype \in {"c_int32", "c_uint32", "c_float"} -> 4
      [] ctype \in {"c_int16", "c_uint16"} -> 2
      [] ctype \in {"c_int8", "c_uint8"} -> 1

\* a ctypes scalar appended to kernelargs
Cell(name, ctype) == [name |-> name, ctype |-> ctype, size |-> sizeof(ctype)]

\* a Python value as far as marshalling reads it: its kind and, for an
\* ndarray, its ndim
Value(vk, ndim) == [vk |-> vk, ndim |-> ndim]

Min(a, b) == IF a <= b THEN a ELSE b

----------------------------------------------------------------------------
(* The argument marshaller *)

\* _unpack_argument on a type with no packing rule, treated as a no-op
_unpack_argument_skip(ty, val) ==
    [err |-> "", cells |-> <<>>]

\* _unpack_argument: the cells appended to kernelargs, or the error raised
_unpack_argument(ty, val) ==
    IF ty.k = "Array" THEN
        [err |-> "",
         cells |-> <<Cell("parent", "c_void_p"), Cell("nitems", "c_ssize_t"),
                     Cell("itemsize", "c_ssize_t"), Cell("data", "c_void_p")>>
                   \o [ax \in 1..val.ndim |-> Cell("shape", "c_ssize_t")]
                   \o [ax \in 1..val.ndim |-> Cell("stride", "c_ssize_t")]]
    ELSE IF ty.k \in IntegerKinds THEN
        [err |-> "", cells |-> <<Cell("int", "c_" \o ty.k)>>]
    ELSE IF ty.k = "float64" THEN
        [err |-> "", cells |-> <<Cell("float", "c_double")>>]
    ELSE IF ty.k = "float32" THEN
        [err |-> "", cells |-> <<Cell("float", "c_float")>>]
    ELSE IF ty.k = "boolean" THEN
        [err |-> "", cells |-> <<Cell("bool", "c_uint8")>>]
    ELSE IF ty.k = "complex64" THEN
        [err |-> "", cells |-> <<Cell("real", "c_float"), Cell("imag", "c_float")>>]
    ELSE IF ty.k = "complex128" THEN
        [err |-> "", cells |-> <<Cell("real", "c_double"), Cell("imag", "c_double")>>]
    ELSE
        [err |-> "NotImplementedError", cells |-> <<>>]

\* HSAKernel.__call__, `for ty, val in zip(self.argument_types, args)`: zip
\* stops at the shorter of the two; the first error ends the loop
RECURSIVE unpack_from(_, _, _, _)
unpack_from(argtypes, args, i, kernelargs) ==
    IF i > Min(Len(argtypes), Len(args))
    THEN [err |-> "", cells |-> kernelargs]
    ELSE LET u == _unpack_argument(argtypes[i], args[i])
         IN  IF u.err # "" THEN [err |-> u.err, cells |-> kernelargs]
             ELSE unpack_from(argtypes, args, i + 1, kernelargs \o u.cells)

\* a padding function that never pads
_calc_padding_none(align, base) == 0

\* a padding function returning the remainder itself
_calc_padding_rmdr(align, base) == base % align

\* _calc_padding_for_alignment
_calc_padding_for_alignment(align, base) ==
    LET rmdr == base % align
    IN  IF rmdr = 0 THEN 0 ELSE align - rmdr

\* HSAKernel.__call__, the loop over expanded_values: the offset and size
\* of every write and the final running offset
RECURSIVE insert_from(_, _, _, _)
insert_from(expanded_values, i, base, writes) ==
    IF i > Len(expanded_values)
    THEN [base |-> base, writes |-> writes]
    ELSE LET align == expanded_values[i].size
             pad == _calc_padding_for_alignment(align, base)
             at == base + pad
         IN  insert_from(expanded_values, i + 1, at + align,
                         Append(writes, [off |-> at, size |-> align]))

----------------------------------------------------------------------------
(* The driver as the code uses it *)

\* the device contexts devices.get_context() may return
Contexts == {1, 2}

\* HSAKernel.INJECTED_NARG
INJECTED_NARG == 6

\* ctypes.sizeof(ctypes.c_void_p) on a 64-bit host
PtrSize == 8

\* a driver call, in the order the code makes it
Ev(name, a, b) == [ev |-> name, a |-> a, b |-> b]

\* `result is None` in _CachedProgram.get: no entry for the context
NoEntry == [code_desc |-> 0, program |-> 0, kernarg_region |-> 0]

\* the driver state a call reads and writes
World == [cacheprogs |-> cacheprogs, programs |-> programs, buffers |-> buffers]

----------------------------------------------------------------------------
(* _CachedProgram *)

\* _CachedProgram.__init__: the binary is kept, the cache starts empty
CachedProgram_init(binary) ==
    [binary |-> binary, cache |-> [c \in Contexts |-> NoEntry]]

\* the finalization of _CachedProgram.get: create_program, add_module,
\* finalize (which reports kernarg_segment_byte_size = seg), region lookup
finalize(W, p, ctx, seg) ==
    LET program == Len(W.programs) + 1
    IN  [programs |-> Append(W.programs,
                             [binary |-> W.cacheprogs[p].binary, agent |-> ctx,
                              owner |-> p, released |-> FALSE]),
         entry |-> [code_desc |-> seg, program |-> program,
                    kernarg_region |-> ctx],
         events |-> <<Ev("from_memory", W.cacheprogs[p].binary, 0),
                      Ev("create_program", program, ctx),
                      Ev("add_module", program, W.cacheprogs[p].binary),
                      Ev("finalize", program, ctx)>>]

\* _CachedProgram.get without `self._cache[ctx] = result`
CachedProgram_get_nostore(W, p, ctx, seg) ==
    LET f == finalize(W, p, ctx, seg)
    IN  [W |-> [W EXCEPT !.programs = f.programs],
         ctx |-> ctx, entry |-> f.entry, events |-> f.events]

\* _CachedProgram.get for cache object p with ctx the active context
CachedProgram_get(W, p, ctx, seg) ==
    LET result == W.cacheprogs[p].cache[ctx]
    IN  IF result = NoEntry
        THEN LET f == finalize(W, p, ctx, seg)
             IN  [W |-> [W EXCEPT !.programs = f.programs,
                                  !.cacheprogs[p].cache[ctx] = f.entry],
                  ctx |-> ctx, entry |-> f.entry, events |-> f.events]
        ELSE [W |-> W, ctx |-> ctx, entry |-> result, events |-> <<>>]

\* _CachedProgram.__del__, the loop over self._cache.values(): the entries
\* under the contexts `keys` are still to be visited
RECURSIVE release_from(_, _, _, _)
release_from(W, p, keys, events) ==
    IF keys = {}
    THEN [W |-> W, events |-> events]
    ELSE LET c == CHOOSE k \in keys : TRUE
             ent == W.cacheprogs[p].cache[c]
         IN  release_from([W EXCEPT !.programs[ent.program].released = TRUE],
                          p, keys \ {c},
                          Append(events, Ev("release", ent.program, c)))

\* a destructor that leaves the loop after the first entry
CachedProgram_del_first(W, p) ==
    LET keys == {c \in Contexts : W.cacheprogs[p].cache[c] # NoEntry}
    IN  IF keys = {} THEN [W |-> W, events |-> <<>>]
        ELSE release_from(W, p, {CHOOSE k \in keys : TRUE}, <<>>)

\* _CachedProgram.__del__ of cache object p
CachedProgram_del(W, p) ==
    release_from(W, p, {c \in Contexts : W.cacheprogs[p].cache[c] # NoEntry},
                 <<>>)

----------------------------------------------------------------------------
(* HSAKernel *)

\* a constructor that already stores an entry for context 1
HSAKernel_init_eager(heap, cps, argtypes) ==
    [heap |-> Append(heap,
                     HSAKernelBase_init("HSAKernel", argtypes, Len(cps) + 1)),
     cacheprogs |-> Append(cps,
                           [CachedProgram_init(Len(cps) + 1) EXCEPT
                               !.cache[1] = [code_desc |-> 0, program |-> 1,
                                             kernarg_region |-> 1]]),
     at |-> Len(heap) + 1]

\* HSAKernel.__init__: the object and its _CachedProgram; no driver call
HSAKernel_init(heap, cps, argtypes) ==
    [heap |-> Append(heap,
                     HSAKernelBase_init("HSAKernel", argtypes, Len(cps) + 1)),
     cacheprogs |-> Append(cps, CachedProgram_init(Len(cps) + 1)),
     at |-> Len(heap) + 1]

\* self._injectedargsize
injectedargsize == INJECTED_NARG * PtrSize

\* HSAKernel.bind after self._cacheprog.get() returned g: allocate the
\* buffer from the entry's region, zero the injected header
bind_entry(g) ==
    LET kernargs == Len(g.W.buffers) + 1
        size == g.entry.code_desc
    IN  [W |-> [g.W EXCEPT !.buffers =
                    Append(@, [region |-> g.entry.kernarg_region,
                               size |-> size, frees |-> 0])],
         ctx |-> g.ctx, code_desc |-> g.entry.code_desc,
         kernargs |-> kernargs, kernarg_region |-> g.entry.kernarg_region,
         events |-> g.events
                    \o <<Ev("allocate", kernargs, g.entry.kernarg_region),
                         Ev("inject", 0, injectedargsize)>>]

\* HSAKernel.bind: fetch or finalize the entry, then allocate
bind(W, self, ctx, seg) ==
    bind_entry(CachedProgram_get(W, self.ref, ctx, seg))

\* the size check always passing (the assert compiled away)
layout_ok_always(base, size) == TRUE

\* HSAKernel.__call__, `assert base == ctypes.sizeof(kernargs)`
layout_ok(base, size) == base = size

\* a free that releases nothing
free_noop(W, kernargs) == W

\* HSAKernel.__call__, `kernarg_region.free(kernargs)`
free(W, kernargs) == [W EXCEPT !.buffers[kernargs].frees = @ + 1]

\* the record of one invocation
CallRecord(self, args, b, outcome, trace, base, dispatched) ==
    [op |-> "call", argument_types |-> self.argument_types, args |-> args,
     cacheprog |-> self.ref,
     ctx |-> b.ctx, kernargs |-> b.kernargs, size |-> b.code_desc,
     region |-> b.kernarg_region, outcome |-> outcome, trace |-> trace,
     base |-> base,
     grid_size |-> IF dispatched THEN self.global_size ELSE <<>>,
     workgroup_size |-> IF dispatched THEN self.local_size ELSE NoneSize,
     config |-> <<self.global_size, self.local_size, self.stream>>]

\* HSAKernel.__call__ after bind returned b: unpack, insert, check the
\* size, dispatch, free
invoke(b, self, args) ==
    LET u == unpack_from(self.argument_types, args, 1, <<>>)
        lay == insert_from(u.cells, 1, injectedargsize, <<>>)
        wr == [i \in 1..Len(lay.writes) |->
                  Ev("write", lay.writes[i].off, lay.writes[i].size)]
    IN  IF u.err # ""
        THEN [W |-> b.W,
              call |-> CallRecord(self, args, b, u.err,
                                  b.events \o <<Ev("raise", 0, 0)>>,
                                  injectedargsize, FALSE)]
        ELSE IF ~layout_ok(lay.base, b.code_desc)
        THEN [W |-> b.W,
              call |-> CallRecord(self, args, b, "AssertionError",
                                  b.events \o wr \o <<Ev("raise", 0, 0)>>,
                                  lay.base, FALSE)]
        ELSE [W |-> free(b.W, b.kernargs),
              call |-> CallRecord(self, args, b, "ok",
                                  b.events \o wr
                                    \o <<Ev("dispatch", b.kernargs, b.ctx),
                                         Ev("free", b.kernargs,
                                            b.kernarg_region)>>,
                                  lay.base, TRUE)]

\* HSAKernel.__call__ on the object `self` with ctx the active context
HSAKernel_call(W, self, args, ctx, seg) ==
    invoke(bind(W, self, ctx, seg), self, args)

----------------------------------------------------------------------------
(* AutoJitHSAKernel *)

\* AutoJitHSAKernel.__init__: the wrapper and its empty `definitions`
AutoJitHSAKernel_init(heap, tbls) ==
    [heap |-> Append(heap,
                     HSAKernelBase_init("AutoJitHSAKernel", <<>>, Len(tbls) + 1)),
     tables |-> Append(tbls, <<>>),
     at |-> Len(heap) + 1]

\* typingctx.resolve_argument_type: the type of a runtime value, or failure
\* for a value the typing context cannot classify
resolve_argument_type(a) ==
    CASE a.vk = "int" -> [ok |-> TRUE, ty |-> ScalarType("int64")]
      [] a.vk = "float" -> [ok |-> TRUE, ty |-> ScalarType("float64")]
      [] a.vk = "bool" -> [ok |-> TRUE, ty |-> ScalarType("boolean")]
      [] a.vk = "complex" -> [ok |-> TRUE, ty |-> ScalarType("complex128")]
      [] a.vk = "ndarray" -> [ok |-> TRUE, ty |-> ArrayType(a.ndim)]
      [] a.vk = "tuple" -> [ok |-> TRUE, ty |-> ScalarType("UniTuple")]
      [] OTHER -> [ok |-> FALSE, ty |-> ScalarType("pyobject")]

\* a dict lookup that never finds the key
lookup_miss(table, key) == 0

\* self.definitions.get(argtypes): the kernel stored under the key, 0 for None
lookup(table, key) ==
    IF \E i \in 1..Len(table) : table[i].key = key
    THEN table[CHOOSE i \in 1..Len(table) : table[i].key = key].kernel
    ELSE 0

\* self.definitions[argtypes] = kernel
store(table, key, kernel) ==
    IF \E i \in 1..Len(table) : table[i].key = key
    THEN [i \in 1..Len(table) |->
            IF table[i].key = key THEN [key |-> key, kernel |-> kernel]
            ELSE table[i]]
    ELSE Append(table, [key |-> key, kernel |-> kernel])

\* compile_kernel: the HSAKernel built for the signature the compiler returns
compile_kernel(heap, cps, argtypes) == HSAKernel_init(heap, cps, argtypes)

\* a specialize that compiles and inserts before it reports an argument
\* the typing context could not classify
specialize_compile_first(heap, cps, tbls, comps, self, args) ==
    LET res == [i \in 1..Len(args) |-> resolve_argument_type(args[i])]
        argtypes == [i \in 1..Len(args) |-> res[i].ty]
        t == heap[self].ref
        found == lookup(tbls[t], argtypes)
        k == compile_kernel(heap, cps, argtypes)
        failed == \E i \in 1..Len(args) : ~res[i].ok
    IN  IF found = 0
        THEN [err |-> IF failed THEN "UnresolvedType" ELSE "",
              heap |-> k.heap, cacheprogs |-> k.cacheprogs,
              tables |-> [tbls EXCEPT ![t] = store(@, argtypes, k.at)],
              compiles |-> Append(comps, [table |-> t, key |-> argtypes]),
              key |-> argtypes, kernel |-> k.at]
        ELSE [err |-> IF failed THEN "UnresolvedType" ELSE "",
              heap |-> heap, cacheprogs |-> cps, tables |-> tbls,
              compiles |-> comps, key |-> argtypes, kernel |-> found]

\* AutoJitHSAKernel.specialize: resolve the argument types, look the key up,
\* compile and insert on a miss
specialize(heap, cps, tbls, comps, self, args) ==
    LET res == [i \in 1..Len(args) |-> resolve_argument_type(args[i])]
        argtypes == [i \in 1..Len(args) |-> res[i].ty]
        t == heap[self].ref
        found == lookup(tbls[t], argtypes)
    IN  IF \E i \in 1..Len(args) : ~res[i].ok
        THEN [err |-> "UnresolvedType", heap |-> heap, cacheprogs |-> cps,
              tables |-> tbls, compiles |-> comps, key |-> <<>>, kernel |-> 0]
        ELSE IF found = 0
        THEN LET k == compile_kernel(heap, cps, argtypes)
             IN  [err |-> "", heap |-> k.heap, cacheprogs |-> k.cacheprogs,
                  tables |-> [tbls EXCEPT ![t] = store(@, argtypes, k.at)],
                  compiles |-> Append(comps, [table |-> t, key |-> argtypes]),
                  key |-> argtypes, kernel |-> k.at]
        ELSE [err |-> "", heap |-> heap, cacheprogs |-> cps, tables |-> tbls,
              compiles |-> comps, key |-> argtypes, kernel |-> found]

\* launching the resolved kernel object as it is stored in the table
launch_config_of_kernel(heap, kernel, self) == [heap |-> heap, at |-> kernel]

\* AutoJitHSAKernel.__call__,
\* `cfg = kernel.configure(self.global_size, self.local_size, self.stream)`
launch_config(heap, kernel, self) ==
    configure(heap, kernel, SeqArg(heap[self].global_size),
              AsArg(heap[self].local_size), heap[self].stream)

\* AutoJitHSAKernel.__call__: specialize, configure, invoke; the configured
\* clone is dropped when the call returns
AutoJit_call(self, args, ctx, seg) ==
    LET sp == specialize(objs, cacheprogs, tables, compiles, self, args)
        cfg == launch_config(sp.heap, sp.kernel, self)
        W == [World EXCEPT !.cacheprogs = sp.cacheprogs]
        r == HSAKernel_call(W, cfg.heap[cfg.at], args, ctx, seg)
    IN  IF sp.err # ""
        THEN [err |-> sp.err, heap |-> sp.heap, tables |-> sp.tables,
              compiles |-> sp.compiles, W |-> W, call |-> lastCall,
              key |-> <<>>, kernel |-> 0]
        ELSE [err |-> r.call.outcome,
              heap |-> SubSeq(cfg.heap, 1, Len(sp.heap)),
              tables |-> sp.tables, compiles |-> sp.compiles,
              W |-> r.W, call |-> r.call, key |-> sp.key, kernel |-> sp.kernel]

----------------------------------------------------------------------------
(* Inputs of the configuration protocol *)

\* global_size / local_size as callers give them: a scalar, the empty
\* sequence, rank 1 and rank 2
SizeInputs ==
    {ScalarArg(2), SeqArg(<<>>), SeqArg(<<4>>), SeqArg(<<2, 3>>)}

\* griddim and blockdim of the square-bracket form
GridInputs == {ScalarArg(2), SeqArg(<<8>>), SeqArg(<<2, 3>>)}
BlockInputs == {SeqArg(<<>>), SeqArg(<<4>>), SeqArg(<<2, 3>>)}

Streams == {"None", "s1"}

NoCall ==
    [op |-> "none", argument_types |-> <<>>, args |-> <<>>, cacheprog |-> 0,
     ctx |-> 0,
     kernargs |-> 0, size |-> 0, region |-> 0, outcome |-> "", trace |-> <<>>,
     base |-> 0, grid_size |-> <<>>, workgroup_size |-> NoneSize,
     config |-> <<(<<>>), NoneSize, "None">>]

NoAuto == [op |-> "none", wrapper |-> 0, key |-> <<>>, kernel |-> 0]

\* the calling threads
Threads == {1, 2}

\* a thread outside any call
IdleThread == [pc |-> "idle", ctx |-> 0, result |-> NoEntry]

NoCfg == [op |-> "none", recv |-> 0, g |-> NoneArg, l |-> NoneArg,
          rest |-> <<>>, res |-> 0]

\* no _calc_padding_for_alignment call under study
NoPad == [align |-> 0, base |-> 0, done |-> FALSE, pad |-> 0]

\* no _unpack_argument call under study
NoPack == [ty |-> ScalarType("none"), val |-> Value("none", 0),
           done |-> FALSE, err |-> "", cells |-> <<>>]

----------------------------------------------------------------------------
(* The configuration protocol on its own *)

\* kernel.configure(global_size, local_size, stream) on a live object
Configure(o, g, l, s) ==
    /\ Len(objs) < MaxObjs
    /\ LET r == configure(objs, o, g, l, s)
       IN  /\ objs' = r.heap
           /\ lastCfg' = [op |-> "configure", recv |-> o, g |-> g, l |-> l,
                          rest |-> <<s>>, res |-> r.at]
    /\ UNCHANGED <<curctx, drvVars, autoVars, threads, calcVars>>

\* kernel[griddim, blockdim] and kernel[griddim, blockdim, stream]
GetItem(o, gd, bd, rest) ==
    /\ Len(objs) < MaxObjs
    /\ LET r == getitem(objs, o, gd, bd, rest)
       IN  /\ objs' = r.heap
           /\ lastCfg' = [op |-> "getitem", recv |-> o, g |-> gd, l |-> bd,
                          rest |-> rest, res |-> r.at]
    /\ UNCHANGED <<curctx, drvVars, autoVars, threads, calcVars>>

InitCfg ==
    /\ objs = <<HSAKernelBase_init("HSAKernel", <<>>, 1)>>
    /\ lastCfg = NoCfg
    /\ curctx = 1
    /\ cacheprogs = <<>>
    /\ programs = <<>>
    /\ buffers = <<>>
    /\ lastCall = NoCall
    /\ outcomes = <<>>
    /\ tables = <<>>
    /\ compiles = <<>>
    /\ lastAuto = NoAuto
    /\ threads = [t \in Threads |-> IdleThread]
    /\ padcalc = NoPad
    /\ packed = NoPack

NextCfg ==
    \/ \E o \in 1..Len(objs), g \in SizeInputs,
          l \in SizeInputs \cup {NoneArg}, s \in Streams :
            Configure(o, g, l, s)
    \/ \E o \in 1..Len(objs), gd \in GridInputs, bd \in BlockInputs,
          rest \in {<<>>, <<"s1">>} :
            GetItem(o, gd, bd, rest)

SpecCfg == InitCfg /\ [][NextCfg]_vars

----------------------------------------------------------------------------
(* The marshaller's functions on their own *)

\* the module before any kernel object or wrapper is built
NoObjects ==
    /\ objs = <<>>
    /\ lastCfg = NoCfg
    /\ curctx = 1
    /\ cacheprogs = <<>>
    /\ programs = <<>>
    /\ buffers = <<>>
    /\ lastCall = NoCall
    /\ outcomes = <<>>
    /\ tables = <<>>
    /\ compiles = <<>>
    /\ lastAuto = NoAuto
    /\ threads = [t \in Threads |-> IdleThread]

\* _calc_padding_for_alignment(align, base) is called and returns
CalcPadding ==
    /\ ~padcalc.done
    /\ padcalc' = [padcalc EXCEPT
                     !.done = TRUE,
                     !.pad = _calc_padding_for_alignment(padcalc.align,
                                                         padcalc.base)]
    /\ UNCHANGED <<cfgVars, curctx, drvVars, autoVars, threads, packed>>

InitPad ==
    /\ NoObjects
    /\ padcalc \in {[NoPad EXCEPT !.align = a, !.base = b] :
                      a \in 1..MaxAlign, b \in 0..MaxBase}
    /\ packed = NoPack

NextPad == CalcPadding

SpecPad == InitPad /\ [][NextPad]_vars

\* the scalar argument types; UniTuple is a type with no packing rule
ScalarKinds ==
    IntegerKinds \cup {"float64", "float32", "boolean", "complex64",
                       "complex128", "UniTuple"}

\* a declared type and a value passed for it: for an Array descriptor an
\* ndarray of any rank, for a scalar type a value of its kind
PackInputs ==
    {<<ArrayType(r), Value("ndarray", n)>> : r \in 0..MaxRank, n \in 0..MaxRank}
      \cup {<<ScalarType(k),
              Value(IF k \in IntegerKinds THEN "int"
                    ELSE IF k \in {"float64", "float32"} THEN "float"
                    ELSE IF k = "boolean" THEN "bool"
                    ELSE IF k = "UniTuple" THEN "tuple"
                    ELSE "complex", 0)>> : k \in ScalarKinds}

\* _unpack_argument(ty, val, kernelargs) is called on an empty kernelargs
Pack ==
    /\ ~packed.done
    /\ \E u \in {_unpack_argument(packed.ty, packed.val)} :
           packed' = [packed EXCEPT !.done = TRUE, !.err = u.err,
                                    !.cells = u.cells]
    /\ UNCHANGED <<cfgVars, curctx, drvVars, autoVars, threads, padcalc>>

InitPack ==
    /\ NoObjects
    /\ padcalc = NoPad
    /\ packed \in {[NoPack EXCEPT !.ty = i[1], !.val = i[2]] : i \in PackInputs}

NextPack == Pack

SpecPack == InitPack /\ [][NextPack]_vars

----------------------------------------------------------------------------
(* Inputs of a kernel invocation *)

\* the declared argument types of the kernels the model builds; UniTuple
\* is a type with no packing rule
Signatures ==
    {<<ScalarType("int32")>>,
     <<ScalarType("boolean"), ScalarType("float64")>>,
     <<ArrayType(1), ScalarType("int32")>>,
     <<ScalarType("int32"), ScalarType("UniTuple")>>}

\* values a caller passes for a declared type: an ndarray of the declared
\* or of another rank for an Array, a matching scalar otherwise
ValuesFor(ty) ==
    IF ty.k = "Array" THEN {Value("ndarray", ty.ndim), Value("ndarray", ty.ndim + 1)}
    ELSE IF ty.k \in IntegerKinds THEN {Value("int", 0)}
    ELSE IF ty.k \in {"float32", "float64"} THEN {Value("float", 0)}
    ELSE IF ty.k = "boolean" THEN {Value("bool", 0)}
    ELSE IF ty.k \in {"complex64", "complex128"} THEN {Value("complex", 0)}
    ELSE {Value("tuple", 0)}

AllValues ==
    {Value("ndarray", 1), Value("ndarray", 2), Value("int", 0),
     Value("float", 0), Value("bool", 0), Value("complex", 0),
     Value("tuple", 0)}

\* the argument lists tried on a kernel: one argument fewer than declared,
\* as many as declared, one more than declared
ArgLists(argtypes) ==
    UNION {{a \in [1..n -> AllValues] :
              \A i \in 1..n :
                 IF i <= Len(argtypes) THEN a[i] \in ValuesFor(argtypes[i])
                 ELSE a[i] = Value("int", 0)} :
           n \in (Len(argtypes) - 1)..(Len(argtypes) + 1)}

\* the value of the declared rank and kind for each declared type
DeclaredArgs(argtypes) ==
    [i \in 1..Len(argtypes) |->
        IF argtypes[i].k = "Array" THEN Value("ndarray", argtypes[i].ndim)
        ELSE CHOOSE v \in ValuesFor(argtypes[i]) : TRUE]

\* the end of the layout of the declared arguments
DeclaredSize(argtypes) ==
    insert_from(unpack_from(argtypes, DeclaredArgs(argtypes), 1, <<>>).cells,
                1, injectedargsize, <<>>).base

\* kernarg_segment_byte_size as the finalizer may report it for a kernel:
\* the size of the declared layout, or 8 bytes less or more
SegSizes(argtypes) ==
    {DeclaredSize(argtypes) - 8, DeclaredSize(argtypes),
     DeclaredSize(argtypes) + 8}

----------------------------------------------------------------------------
(* Sequential use of one kernel object *)

\* the caller makes another device context the active one
SetContext(c) ==
    /\ c # curctx
    /\ curctx' = c
    /\ UNCHANGED <<cfgVars, drvVars, autoVars, threads, calcVars>>

\* kernel(*args)
Call(o, args, seg) ==
    /\ objs[o].kind = "HSAKernel"
    /\ Len(outcomes) < MaxCalls
    /\ \E r \in {HSAKernel_call(World, objs[o], args, curctx, seg)} :
           /\ cacheprogs' = r.W.cacheprogs
           /\ programs' = r.W.programs
           /\ buffers' = r.W.buffers
           /\ lastCall' = r.call
           /\ outcomes' = Append(outcomes, r.call.outcome)
    /\ UNCHANGED <<cfgVars, curctx, autoVars, threads, calcVars>>

Init ==
    /\ \E argtypes \in Signatures :
          LET k == HSAKernel_init(<<>>, <<>>, argtypes)
          IN  objs = k.heap /\ cacheprogs = k.cacheprogs
    /\ lastCfg = NoCfg
    /\ curctx \in Contexts
    /\ programs = <<>>
    /\ buffers = <<>>
    /\ lastCall = NoCall
    /\ outcomes = <<>>
    /\ tables = <<>>
    /\ compiles = <<>>
    /\ lastAuto = NoAuto
    /\ threads = [t \in Threads |-> IdleThread]
    /\ padcalc = NoPad
    /\ packed = NoPack

Next ==
    \/ \E c \in Contexts : SetContext(c)
    \/ \E o \in 1..Len(objs) :
         \E args \in ArgLists(objs[o].argument_types),
            seg \in SegSizes(objs[o].argument_types) :
              Call(o, args, seg)

Spec == Init /\ [][Next]_vars

----------------------------------------------------------------------------
(* Sequential use of one kernel object up to its destruction *)

\* the last reference to the kernels holding cache object p is dropped: the
\* kernels are collected and _CachedProgram.__del__ runs
Destroy(p) ==
    /\ \E o \in 1..Len(objs) : objs[o].kind = "HSAKernel" /\ objs[o].ref = p
    /\ \E r \in {CachedProgram_del(World, p)} :
           /\ programs' = r.W.programs
           /\ lastCall' = [NoCall EXCEPT !.op = "del", !.cacheprog = p,
                                         !.trace = r.events]
    /\ objs' = [o \in 1..Len(objs) |->
                   IF objs[o].kind = "HSAKernel" /\ objs[o].ref = p
                   THEN [objs[o] EXCEPT !.kind = "collected"]
                   ELSE objs[o]]
    /\ UNCHANGED <<lastCfg, curctx, cacheprogs, buffers, outcomes, autoVars,
                   threads, calcVars>>

NextDel ==
    \/ Next
    \/ \E p \in 1..Len(cacheprogs) : Destroy(p)

SpecDel == Init /\ [][NextDel]_vars

----------------------------------------------------------------------------
(* Calls through one auto-specializing wrapper and its reconfigured clones *)

\* the argument lists passed to the wrapper; a value of kind "object" is
\* one the typing context cannot classify
AutoArgLists ==
    {<<Value("int", 0)>>, <<Value("int", 0), Value("float", 0)>>,
     <<Value("ndarray", 1)>>, <<Value("int", 0), Value("object", 0)>>}

\* the launch configurations given to the wrapper
AutoConfigs ==
    {<<ScalarArg(4), SeqArg(<<2>>), "s1">>, <<SeqArg(<<2, 3>>), NoneArg, "None">>}

\* the types the arguments resolve to, where they all resolve
ResolvedTypes(args) ==
    [i \in 1..Len(args) |-> resolve_argument_type(args[i]).ty]

\* the segment sizes the finalizer may report for the specialization
AutoSegSizes(args) ==
    IF \A i \in 1..Len(args) : resolve_argument_type(args[i]).ok
    THEN SegSizes(ResolvedTypes(args))
    ELSE {0}

\* wrapper(*args)
AutoJitCall(w, args, seg) ==
    /\ objs[w].kind = "AutoJitHSAKernel"
    /\ Len(outcomes) < MaxCalls
    /\ \E r \in {AutoJit_call(w, args, curctx, seg)} :
           /\ Len(r.heap) <= MaxObjs
           /\ objs' = r.heap
           /\ tables' = r.tables
           /\ compiles' = r.compiles
           /\ cacheprogs' = r.W.cacheprogs
           /\ programs' = r.W.programs
           /\ buffers' = r.W.buffers
           /\ lastCall' = r.call
           /\ outcomes' = Append(outcomes, r.err)
           /\ lastAuto' = [op |-> "call", wrapper |-> w, key |-> r.key,
                           kernel |-> r.kernel]
    /\ UNCHANGED <<lastCfg, curctx, threads, calcVars>>

InitAuto ==
    /\ LET a == AutoJitHSAKernel_init(<<>>, <<>>)
       IN  objs = a.heap /\ tables = a.tables
    /\ lastCfg = NoCfg
    /\ curctx = 1
    /\ cacheprogs = <<>>
    /\ programs = <<>>
    /\ buffers = <<>>
    /\ lastCall = NoCall
    /\ outcomes = <<>>
    /\ compiles = <<>>
    /\ lastAuto = NoAuto
    /\ threads = [t \in Threads |-> IdleThread]
    /\ padcalc = NoPad
    /\ packed = NoPack

NextAuto ==
    \/ \E w \in 1..Len(objs), c \in AutoConfigs :
          objs[w].kind = "AutoJitHSAKernel" /\ Configure(w, c[1], c[2], c[3])
    \/ \E w \in 1..Len(objs), args \in AutoArgLists :
         \E seg \in AutoSegSizes(args) : AutoJitCall(w, args, seg)

SpecAuto == InitAuto /\ [][NextAuto]_vars

----------------------------------------------------------------------------
(* A kernel or a wrapper used together with its reconfigured clones *)

\* the segment size the finalizer reports for the declared layout
CloneSegSizes(args) ==
    IF \A i \in 1..Len(args) : resolve_argument_type(args[i]).ok
    THEN {DeclaredSize(ResolvedTypes(args))}
    ELSE {0}

\* either one HSAKernel or one AutoJitHSAKernel has been built
InitClone == Init \/ InitAuto

NextClone ==
    \/ \E c \in Contexts : SetContext(c)
    \/ \E o \in 1..Len(objs) :
          Configure(o, SeqArg(<<2, 3>>), NoneArg, "s1")
    \/ \E o \in 1..Len(objs) :
          GetItem(o, SeqArg(<<8>>), SeqArg(<<4>>), <<>>)
    \/ \E o \in 1..Len(objs) :
          Call(o, DeclaredArgs(objs[o].argument_types),
               DeclaredSize(objs[o].argument_types))
    \/ \E w \in 1..Len(objs), args \in AutoArgLists :
         \E seg \in CloneSegSizes(args) : AutoJitCall(w, args, seg)

SpecClone == InitClone /\ [][NextClone]_vars

----------------------------------------------------------------------------
(* Several threads calling one kernel object *)

\* the calls begun so far: those finished and those under way
CallsBegun ==
    Len(outcomes) + Cardinality({t \in Threads : threads[t].pc # "idle"})

\* _CachedProgram.get, `ctx = devices.get_context()` and
\* `result = self._cache.get(ctx)`, in thread t calling objs[1]
GetLookup(t) ==
    /\ threads[t].pc = "idle"
    /\ CallsBegun < MaxCalls
    /\ LET result == cacheprogs[objs[1].ref].cache[curctx]
       IN  threads' = [threads EXCEPT ![t] =
                          [pc |-> IF result = NoEntry THEN "finalize"
                                  ELSE "bind",
                           ctx |-> curctx, result |-> result]]
    /\ UNCHANGED <<cfgVars, curctx, drvVars, autoVars, calcVars>>

\* _CachedProgram.get, the driver calls under `if result is None`
GetFinalize(t, seg) ==
    /\ threads[t].pc = "finalize"
    /\ LET f == finalize(World, objs[1].ref, threads[t].ctx, seg)
       IN  /\ programs' = f.programs
           /\ threads' = [threads EXCEPT ![t].pc = "store",
                                         ![t].result = f.entry]
    /\ UNCHANGED <<cfgVars, curctx, cacheprogs, buffers, lastCall, outcomes,
                   autoVars, calcVars>>

\* _CachedProgram.get, `self._cache[ctx] = result`
GetStore(t) ==
    /\ threads[t].pc = "store"
    /\ cacheprogs' = [cacheprogs EXCEPT
                         ![objs[1].ref].cache[threads[t].ctx] =
                             threads[t].result]
    /\ threads' = [threads EXCEPT ![t].pc = "bind"]
    /\ UNCHANGED <<cfgVars, curctx, programs, buffers, lastCall, outcomes,
                   autoVars, calcVars>>

\* the rest of HSAKernel.bind and of HSAKernel.__call__ in thread t, with
\* the entry get returned to it
BindAndInvoke(t, args) ==
    /\ threads[t].pc = "bind"
    /\ LET g == [W |-> World, ctx |-> threads[t].ctx,
                 entry |-> threads[t].result, events |-> <<>>]
       IN  \E r \in {invoke(bind_entry(g), objs[1], args)} :
           /\ buffers' = r.W.buffers
           /\ lastCall' = r.call
           /\ outcomes' = Append(outcomes, r.call.outcome)
    /\ threads' = [threads EXCEPT ![t] = IdleThread]
    /\ UNCHANGED <<cfgVars, curctx, cacheprogs, programs, autoVars, calcVars>>

NextMT ==
    \E t \in Threads :
        \/ GetLookup(t)
        \/ \E seg \in SegSizes(objs[1].argument_types) : GetFinalize(t, seg)
        \/ GetStore(t)
        \/ \E args \in ArgLists(objs[1].argument_types) : BindAndInvoke(t, args)

SpecMT == Init /\ [][NextMT]_vars

----------------------------------------------------------------------------
(* Claims about kernel invocation (checked under Spec) *)

\* the launch configuration of an object
ConfigOf(o) == <<o.global_size, o.local_size, o.stream>>

\* the positions of the driver call `name` in a trace
EvAt(trace, name) == {i \in 1..Len(trace) : trace[i].ev = name}

\* the programs finalized for cache object p and context c
FinalizedFor(p, c) ==
    {i \in 1..Len(programs) : programs[i].owner = p /\ programs[i].agent = c}

\* C1: over any sequence of calls with the active context changing between
\* them, a kernel binary is finalized at most once per device context; a call
\* for a context already seen finalizes nothing and uses the cached entry.
C1_FinalizeAtMostOncePerContext ==
    /\ \A p \in 1..Len(cacheprogs), c \in Contexts :
          /\ Cardinality(FinalizedFor(p, c)) <= 1
          /\ (cacheprogs[p].cache[c] # NoEntry) <=> (FinalizedFor(p, c) # {})
          /\ cacheprogs[p].cache[c] # NoEntry =>
                cacheprogs[p].cache[c].program \in FinalizedFor(p, c)
    /\ lastCall.op = "call" =>
          LET ent == cacheprogs[lastCall.cacheprog].cache[lastCall.ctx]
          IN  /\ ent # NoEntry
              /\ lastCall.size = ent.code_desc
              /\ lastCall.region = ent.kernarg_region
              /\ \A i \in EvAt(lastCall.trace, "finalize") :
                    lastCall.trace[i].a = ent.program

\* calls under contexts A, B, A: two finalizations, none in the third call
C1_Witness ==
    /\ Len(buffers) = 3
    /\ buffers[1].region = 1 /\ buffers[2].region = 2 /\ buffers[3].region = 1
    /\ Len(programs) = 2
    /\ lastCall.ctx = 1
    /\ EvAt(lastCall.trace, "finalize") = {}

\* the binary handed to _CachedProgram when the kernel of this behaviour
\* was constructed
BinaryAtConstruction ==
    HSAKernel_init(<<>>, <<>>, objs[1].argument_types).cacheprogs[1].binary

\* the driver calls of one finalization
FinalizationCalls == {"from_memory", "create_program", "add_module", "finalize"}

\* C14: constructing an HSAKernel loads no module, creates and finalizes no
\* program and creates no cache entry; the first bind does all of these; every
\* finalization, the later ones included, uses the binary fixed at
\* construction.
C14_ConstructionDoesNoDriverWork ==
    /\ outcomes = <<>> =>
          /\ programs = <<>>
          /\ buffers = <<>>
          /\ \A p \in 1..Len(cacheprogs), c \in Contexts :
                cacheprogs[p].cache[c] = NoEntry
    /\ Len(outcomes) = 1 =>
          /\ Len(programs) = 1
          /\ cacheprogs[lastCall.cacheprog].cache[lastCall.ctx] # NoEntry
          /\ \A name \in FinalizationCalls :
                /\ Cardinality(EvAt(lastCall.trace, name)) = 1
                /\ \A i \in EvAt(lastCall.trace, name),
                      j \in EvAt(lastCall.trace, "allocate") : i < j
    /\ \A i \in 1..Len(programs) :
          /\ programs[i].binary = BinaryAtConstruction
          /\ cacheprogs[programs[i].owner].binary = BinaryAtConstruction
    /\ \A i \in EvAt(lastCall.trace, "from_memory") :
          lastCall.trace[i].a = BinaryAtConstruction

\* a later call, under the other context, finalizes again from that binary
C14_Witness ==
    /\ Len(outcomes) >= 2
    /\ Len(programs) = 2
    /\ EvAt(lastCall.trace, "from_memory") # {}
    /\ programs[2].binary = BinaryAtConstruction

\* C15: arguments are bound by position and their number must equal the
\* number of declared argument types: an invocation with fewer or with more
\* arguments than declared never reaches queue.dispatch.
C15_WrongArgCountNeverDispatches ==
    (lastCall.op = "call"
       /\ Len(lastCall.args) # Len(lastCall.argument_types)) =>
        /\ EvAt(lastCall.trace, "dispatch") = {}
        /\ lastCall.outcome # "ok"

\* the cell writes of a trace, in the order made: a is the offset, b the size
Writes(trace) == SelectSeq(trace, LAMBDA e : e.ev = "write")

\* C17: padding is computed before every cell: each cell is written at a
\* multiple of its own size, at or after the end of the injected header of
\* INJECTED_NARG pointers, with the least padding that aligns it; cells are
\* written in marshalling order at strictly increasing offsets and do not
\* overlap; no caller argument is written inside the header.
C17_CellsAlignedAfterHeader ==
    lastCall.op = "call" =>
        LET w == Writes(lastCall.trace)
            cells == unpack_from(lastCall.argument_types, lastCall.args,
                                 1, <<>>).cells
            end(i) == IF i = 0 THEN INJECTED_NARG * PtrSize
                      ELSE w[i].a + w[i].b
        IN  /\ w # <<>> => [i \in 1..Len(w) |-> w[i].b]
                             = [i \in 1..Len(cells) |-> cells[i].size]
            /\ \A i \in 1..Len(w) :
                  /\ w[i].a % w[i].b = 0
                  /\ w[i].a >= INJECTED_NARG * PtrSize
                  /\ w[i].a >= end(i - 1)
                  /\ w[i].a - end(i - 1) < w[i].b
            /\ \A i, j \in 1..Len(w) : i < j => w[i].a + w[i].b <= w[j].a
            /\ \A i \in EvAt(lastCall.trace, "inject") :
                  /\ lastCall.trace[i].a = 0
                  /\ lastCall.trace[i].b = INJECTED_NARG * PtrSize

\* a one-byte cell at the end of the header followed by an eight-byte cell,
\* seven bytes of padding between them
C17_Witness ==
    /\ lastCall.op = "call"
    /\ Len(Writes(lastCall.trace)) = 2
    /\ Writes(lastCall.trace)[1] = Ev("write", 48, 1)
    /\ Writes(lastCall.trace)[2] = Ev("write", 56, 8)

\* C18: every cell write of an invocation lies inside the allocated
\* argument buffer: a cell written at offset o with size s has o + s at most
\* the buffer's size, for every combination of declared types, arguments
\* and reported segment size; nothing is written past the end of the buffer
\* before the size check.
C18_WritesInsideBuffer ==
    lastCall.op = "call" =>
        \A i \in EvAt(lastCall.trace, "write") :
            lastCall.trace[i].a + lastCall.trace[i].b <= lastCall.size

\* C19: an invocation that fails after bind allocated the argument buffer
\* frees that buffer before the error propagates, so after any sequence of
\* invocations, successful or failing, no argument buffer remains allocated.
C19_FailedInvocationFreesBuffer ==
    /\ \A b \in 1..Len(buffers) : buffers[b].frees = 1
    /\ (lastCall.op = "call" /\ lastCall.outcome # "ok"
          /\ EvAt(lastCall.trace, "allocate") # {}) =>
            EvAt(lastCall.trace, "free") # {}

\* C6: invoking a kernel whose declared argument types include a type with no
\* packing rule (and whose arguments reach it) fails with
\* NotImplementedError and makes no kernarg_region.allocate call.
C6_UnsupportedTypeAllocatesNothing ==
    (/\ lastCall.op = "call"
     /\ \E i \in 1..Len(lastCall.argument_types) :
           /\ _unpack_argument(lastCall.argument_types[i],
                               Value("tuple", 0)).err # ""
           /\ i <= Len(lastCall.args))
    => /\ lastCall.outcome = "NotImplementedError"
       /\ EvAt(lastCall.trace, "allocate") = {}

\* C7: a launch is dispatched only if the running offset after all writes
\* equals the size of the argument buffer; when they differ the invocation
\* fails on the size check and dispatch is not called.
C7_DispatchOnlyIfLayoutMatches ==
    lastCall.op = "call" =>
        /\ EvAt(lastCall.trace, "dispatch") # {} =>
              lastCall.base = buffers[lastCall.kernargs].size
        /\ (lastCall.outcome # "NotImplementedError"
            /\ lastCall.base # buffers[lastCall.kernargs].size) =>
              /\ lastCall.outcome = "AssertionError"
              /\ EvAt(lastCall.trace, "dispatch") = {}

\* cells were written, the offset missed the buffer size, nothing dispatched
C7_Witness ==
    /\ lastCall.outcome = "AssertionError"
    /\ EvAt(lastCall.trace, "write") # {}
    /\ lastCall.base # lastCall.size
    /\ EvAt(lastCall.trace, "dispatch") = {}
    /\ \E i \in 1..Len(outcomes) : outcomes[i] = "ok"

\* C8: a successful invocation allocates one buffer from the bound
\* context's region, writes every cell before the dispatch, dispatches that
\* buffer once and then at once frees it, once, to the same region; after
\* only successful invocations no buffer remains allocated.
C8_OneBufferPerLaunch ==
    /\ (lastCall.op = "call" /\ lastCall.outcome = "ok") =>
          LET t == lastCall.trace
              n == Len(t)
              cells == unpack_from(lastCall.argument_types, lastCall.args,
                                   1, <<>>).cells
          IN  /\ Cardinality(EvAt(t, "allocate")) = 1
              /\ \A i \in EvAt(t, "allocate") :
                    /\ t[i].a = lastCall.kernargs
                    /\ t[i].b = lastCall.ctx
              /\ buffers[lastCall.kernargs].region = lastCall.ctx
              /\ Cardinality(EvAt(t, "write")) = Len(cells)
              /\ EvAt(t, "dispatch") = {n - 1}
              /\ t[n - 1].a = lastCall.kernargs
              /\ EvAt(t, "free") = {n}
              /\ t[n].a = lastCall.kernargs
              /\ t[n].b = lastCall.ctx
              /\ \A i \in EvAt(t, "write") \cup EvAt(t, "allocate") : i < n - 1
              /\ buffers[lastCall.kernargs].frees = 1
    /\ (\A i \in 1..Len(outcomes) : outcomes[i] = "ok") =>
          \A k \in 1..Len(buffers) : buffers[k].frees = 1
    /\ \A k \in 1..Len(buffers) : buffers[k].frees <= 1

\* three successful launches, each with cells to write, on both contexts
C8_Witness ==
    /\ Len(outcomes) = 3
    /\ \A i \in 1..3 : outcomes[i] = "ok"
    /\ EvAt(lastCall.trace, "write") # {}
    /\ \E k \in 1..Len(buffers) : buffers[k].region # lastCall.ctx
    /\ \A k \in 1..Len(buffers) : buffers[k].frees = 1

----------------------------------------------------------------------------
(* Claims about the specialization table (checked under SpecAuto) *)

\* the kernels a table holds under a key
KernelsUnder(table, key) ==
    {table[i].kernel : i \in {j \in 1..Len(table) : table[j].key = key}}

\* the compile_kernel calls made for a table and a key
CompilesFor(t, key) ==
    {i \in 1..Len(compiles) : compiles[i].table = t /\ compiles[i].key = key}

\* the keys ever compiled or stored for table t
KeysOf(t) ==
    {tables[t][i].key : i \in 1..Len(tables[t])}
      \cup {compiles[i].key : i \in 1..Len(compiles)}

\* in every state: one compile_kernel call and one kernel object per stored
\* key, distinct keys hold distinct kernel objects
C2_TableState ==
    \A t \in 1..Len(tables) :
        /\ \A key \in KeysOf(t) :
              /\ Cardinality(CompilesFor(t, key)) = 1
              /\ Cardinality(KernelsUnder(tables[t], key)) = 1
        /\ \A i, j \in 1..Len(tables[t]) :
              i # j => /\ tables[t][i].key # tables[t][j].key
                       /\ tables[t][i].kernel # tables[t][j].kernel
        /\ \A i \in 1..Len(tables[t]) :
              /\ objs[tables[t][i].kernel].kind = "HSAKernel"
              /\ objs[tables[t][i].kernel].argument_types = tables[t][i].key

\* in every step: entries stay as they are; a call whose key the table
\* held compiles nothing and gets the stored kernel, any other resolved call
\* compiles once
C2_TableStep ==
    /\ \A t \in 1..Len(tables) : \A i \in 1..Len(tables[t]) :
          /\ Len(tables'[t]) >= i
          /\ tables'[t][i] = tables[t][i]
    /\ (Len(outcomes') > Len(outcomes) /\ lastAuto'.kernel # 0) =>
          LET t == objs[lastAuto'.wrapper].ref
              held == KernelsUnder(tables[t], lastAuto'.key)
          IN  IF held # {}
              THEN compiles' = compiles /\ lastAuto'.kernel \in held
              ELSE compiles' =
                     Append(compiles, [table |-> t, key |-> lastAuto'.key])

\* C2: compile_kernel is invoked exactly once per distinct resolved
\* signature; the same signature reuses the cached kernel object, different
\* signatures hold distinct kernel objects, and no table entry is ever
\* removed or replaced.
C2_CompileOncePerSignature == [](C2_TableState) /\ [][C2_TableStep]_vars

\* three calls: a signature, another signature, the first again, reusing the
\* kernel compiled first
C2_Witness ==
    /\ Len(outcomes) = 3
    /\ Len(tables[1]) = 2
    /\ Len(compiles) = 2
    /\ lastAuto.key = tables[1][1].key
    /\ lastAuto.kernel = tables[1][1].kernel
    /\ lastCall.outcome = "ok"

\* a wrapper call with these arguments, one of which the typing context
\* cannot classify, ends with UnresolvedType and changes nothing else
UnresolvedCallStep(w, args, seg) ==
    ((\E i \in 1..Len(args) : ~resolve_argument_type(args[i]).ok)
       /\ AutoJitCall(w, args, seg)) =>
        /\ outcomes' = Append(outcomes, "UnresolvedType")
        /\ UNCHANGED <<objs, tables, compiles, cacheprogs, programs, buffers,
                       lastCall>>

\* C16: when the type resolver fails on an argument of a wrapper call, the
\* failure surfaces before any device work and leaves no partial state: no
\* compilation, the specialization table unchanged, no program finalized, no
\* buffer allocated, nothing dispatched.
C16_UnresolvedTypeLeavesNoTrace ==
    [][\A w \in 1..Len(objs), args \in AutoArgLists :
          \A seg \in AutoSegSizes(args) : UnresolvedCallStep(w, args, seg)]_vars

\* a call that failed to resolve, made after a call that compiled, finalized
\* and dispatched
C16_Witness ==
    /\ Len(outcomes) >= 2
    /\ outcomes[Len(outcomes)] = "UnresolvedType"
    /\ lastAuto.kernel = 0
    /\ Len(compiles) >= 1
    /\ Len(tables[1]) = Len(compiles)
    /\ Len(programs) >= 1
    /\ Len(buffers) = Len(outcomes) - 1
    /\ lastCall.outcome = "ok"

----------------------------------------------------------------------------
(* Claims about concurrent callers (checked under SpecMT) *)

\* C10: with two or more threads invoking the same kernel object on the same
\* device context, the check-then-finalize sequence of _CachedProgram.get
\* is mutually exclusive, so finalization happens at most once per (binary,
\* context) under every interleaving.
C10_ConcurrentFinalizeAtMostOnce ==
    \A p \in 1..Len(cacheprogs), c \in Contexts :
        Cardinality(FinalizedFor(p, c)) <= 1

----------------------------------------------------------------------------
(* Claims about the configuration protocol (checked under SpecCfg) *)

\* element i of a list read as if right-padded with 1s
Padded(q, i) == IF i <= Len(q) THEN q[i] ELSE 1

\* C3: configure and the indexing form return a new object and leave every
\* object that existed before the call, the receiver included, with the
\* global_size, local_size and stream it had.
C3_ConfigureNeverChangesReceiver ==
    [][/\ Len(objs') = Len(objs) + 1
       /\ lastCfg'.res = Len(objs')
       /\ lastCfg'.res # lastCfg'.recv
       /\ \A o \in 1..Len(objs) : ConfigOf(objs'[o]) = ConfigOf(objs[o])]_vars

\* a clone of a clone was reconfigured, and the original still has its defaults
C3_Witness ==
    /\ Len(objs) = 3
    /\ lastCfg.recv = 2
    /\ ConfigOf(objs[3]) # ConfigOf(objs[2])
    /\ ConfigOf(objs[2]) # ConfigOf(objs[1])
    /\ ConfigOf(objs[1]) = <<(<<1>>), SomeSize(<<1>>), "None">>

\* C4: with local_size given, configure stores global_size and local_size
\* right-padded with 1s to the larger of the two ranks (equal rank, leading
\* elements kept); with local_size absent, global_size is stored with the
\* rank given and local_size is stored as absent.
C4_ConfigurePadsToEqualRank ==
    lastCfg.op = "configure" =>
        LET o == objs[lastCfg.res]
            G == _ensure_list(lastCfg.g)
            L == _ensure_list(lastCfg.l)
            n == Max(Len(G), Len(L))
        IN  IF lastCfg.l.tag # "none"
            THEN /\ o.local_size.some
                 /\ Len(o.global_size) = n
                 /\ Len(o.local_size.v) = n
                 /\ \A i \in 1..n : /\ o.global_size[i] = Padded(G, i)
                                     /\ o.local_size.v[i] = Padded(L, i)
            ELSE /\ o.global_size = G
                 /\ ~o.local_size.some

\* C5: kernel[gridDim, blockDim, stream] yields the configuration of
\* kernel.configure(G, blockDim, stream) with G[i] = gridDim[i] * blockDim[i]
\* after right-padding both with 1s; kernel[(8,), (4,)] is
\* kernel.configure((32,), (4,)).
C5_GetItemIsConfigureOfProduct ==
    lastCfg.op = "getitem" =>
        LET gd == _ensure_list(lastCfg.g)
            bd == _ensure_list(lastCfg.l)
            n == Max(Len(gd), Len(bd))
            G == [i \in 1..n |-> Padded(gd, i) * Padded(bd, i)]
            st == IF lastCfg.rest = <<>> THEN "None" ELSE lastCfg.rest[1]
            r == configure(objs, lastCfg.recv, SeqArg(G), lastCfg.l, st)
        IN  /\ ConfigOf(objs[lastCfg.res]) = ConfigOf(r.heap[r.at])
            /\ (lastCfg.g = SeqArg(<<8>>) /\ lastCfg.l = SeqArg(<<4>>)) =>
                  /\ objs[lastCfg.res].global_size = <<32>>
                  /\ objs[lastCfg.res].local_size = SomeSize(<<4>>)

\* kernel[(8,), (4,)] was evaluated, and so was an indexing of unequal ranks
C5_Witness ==
    /\ lastCfg.op = "getitem"
    /\ lastCfg.g = SeqArg(<<8>>)
    /\ lastCfg.l = SeqArg(<<4>>)
    /\ objs[lastCfg.res].global_size = <<32>>
    /\ \E o \in 1..Len(objs) : objs[o].global_size = <<4, 3>>

----------------------------------------------------------------------------
(* Claims about the destruction of the cache (checked under SpecDel) *)

\* the release() calls made on program i in a trace
ReleasesOf(trace, i) == {j \in EvAt(trace, "release") : trace[j].a = i}

----------------------------------------------------------------------------
(* Claims about the padding function (checked under SpecPad) *)

\* C12: for every alignment a >= 1 and offset b >= 0 the padding is 0 when
\* b mod a = 0 and a - (b mod a) otherwise; it lies in 0..a-1 and brings the
\* offset to a multiple of a; pad(8,3) = 5, pad(4,8) = 0, pad(1,x) = 0.
C12_PaddingReachesNextMultiple ==
    padcalc.done =>
        LET a == padcalc.align
            b == padcalc.base
            pad == padcalc.pad
        IN  /\ pad = (IF b % a = 0 THEN 0 ELSE a - (b % a))
            /\ 0 <= pad /\ pad < a
            /\ (b + pad) % a = 0
            /\ (a = 8 /\ b = 3) => pad = 5
            /\ (a = 4 /\ b = 8) => pad = 0
            /\ a = 1 => pad = 0

\* pad(8, 3) has been computed and is 5
C12_Witness ==
    /\ padcalc.done
    /\ padcalc.align = 8 /\ padcalc.base = 3
    /\ padcalc.pad = 5

----------------------------------------------------------------------------
(* Claims about _unpack_argument (checked under SpecPack) *)

\* the cells of an array of rank r, by name, in the fixed order
ArrayCellNames(r) ==
    <<"parent", "nitems", "itemsize", "data">>
      \o [ax \in 1..r |-> "shape"] \o [ax \in 1..r |-> "stride"]

\* C13: packing an Array argument whose descriptor has rank r emits exactly
\* 4 + 2r cells in the order parent, count, itemsize, data pointer, r shapes,
\* r strides, whatever value is passed.
C13_ArrayCellsFollowDescriptorRank ==
    (packed.done /\ packed.ty.k = "Array") =>
        /\ packed.err = ""
        /\ Len(packed.cells) = 4 + 2 * packed.ty.ndim
        /\ [i \in 1..Len(packed.cells) |-> packed.cells[i].name]
              = ArrayCellNames(packed.ty.ndim)

----------------------------------------------------------------------------
(* Claims about a kernel and its clones together (checked under SpecClone) *)

\* the objects built by a constructor: the first object of the behaviour and
\* the kernels compile_kernel returned; every other object is a clone
Constructed ==
    {1} \cup UNION {{tables[t][i].kernel : i \in 1..Len(tables[t])} :
                     t \in 1..Len(tables)}

\* C20: every clone made by configure or the indexing form shares the
\* original's finalized-program cache, and every clone of a wrapper shares
\* its specialization table, so over a kernel and all of its clones together
\* a binary is finalized at most once per context and a signature is
\* compiled once.
C20_ClonesShareCacheAndTable ==
    /\ lastCfg.op # "none" =>
          /\ objs[lastCfg.res].ref = objs[lastCfg.recv].ref
          /\ objs[lastCfg.res].kind = objs[lastCfg.recv].kind
    /\ \A o \in 1..Len(objs) :
          \E c \in Constructed :
              objs[c].kind = objs[o].kind /\ objs[c].ref = objs[o].ref
    /\ Len(cacheprogs) =
          Cardinality({c \in Constructed : objs[c].kind = "HSAKernel"})
    /\ Len(tables) =
          Cardinality({c \in Constructed : objs[c].kind = "AutoJitHSAKernel"})
    /\ \A p \in 1..Len(cacheprogs), c \in Contexts :
          Cardinality(FinalizedFor(p, c)) <= 1
    /\ \A t \in 1..Len(tables) : \A key \in KeysOf(t) :
          /\ Cardinality(CompilesFor(t, key)) = 1
          /\ Cardinality(KernelsUnder(tables[t], key)) = 1
    /\ (lastCall.op = "call" /\ FinalizedFor(lastCall.cacheprog, lastCall.ctx)
                                   # {}) =>
          \A i \in EvAt(lastCall.trace, "finalize") :
              FinalizedFor(lastCall.cacheprog, lastCall.ctx)
                 = {lastCall.trace[i].a}

\* a clone of the wrapper compiled a kernel into the shared table and ran it
\* through a configured clone, which finalized it; the kernel stored in the
\* table, called next under the same context, finalizes nothing
C20_Witness ==
    /\ Len(objs) = 3
    /\ objs[1].kind = "AutoJitHSAKernel" /\ objs[2].kind = "AutoJitHSAKernel"
    /\ objs[3].kind = "HSAKernel"
    /\ lastAuto.op = "call" /\ lastAuto.wrapper = 2 /\ lastAuto.kernel = 3
    /\ Len(tables) = 1 /\ Len(tables[1]) = 1 /\ Len(compiles) = 1
    /\ Len(outcomes) = 2
    /\ lastCall.op = "call" /\ lastCall.outcome = "ok"
    /\ lastCall.config = ConfigOf(objs[3])
    /\ lastCall.config # ConfigOf(objs[2])
    /\ EvAt(lastCall.trace, "finalize") = {}
    /\ Len(programs) = 1

====
